---- MODULE Spec2Model ----
(***************************************************************************)
(* A model of the session acquisition and storage code of the NotebookLM   *)
(* MCP server: AuthManager.runAuthentication / getSavedCookies             *)
(* (src/unnamed/part_001), the fix-cookies utility                         *)
(* (src/examples/fix-cookies.ts) and the diagnostic init request of        *)
(* src/examples/test-auth.ts.                                              *)
(*                                                                         *)
(* Text is modelled as a sequence of tokens.  A cookie name is one token,  *)
(* a cookie value a sequence of tokens; "=", "; ", the JSON quote and the  *)
(* JSON backslash are tokens of their own, so that joining, splitting,     *)
(* searching and JSON quoting are computed, not assumed.                   *)
(***************************************************************************)
EXTENDS Integers, Sequences, FiniteSets, TLC

\* ------------------------------------------------------------------ bounds

\* Longest cookie list the browser returns in the cookie-building check.
MaxCookies == 3
\* Most cookies the browser jar holds during a modelled login.
MaxJar == 2
\* Most name=value pairs of a stored cookie string given to fix-cookies.
MaxPairs == 3

\* ------------------------------------------------------ hosts and URLs

\* A host is its sequence of labels: notebooklm.google.com.
TargetHost == <<"notebooklm", "google", "com">>
IdpHost == <<"accounts", "google", "com">>
GoogleDomain == <<"google", "com">>

\* s occurs as a contiguous run inside t (String.prototype.includes).
IsInfix(s, t) ==
  \E i \in 0..(Len(t) - Len(s)) : SubSeq(t, i + 1, i + Len(s)) = s

\* s is a tail of t.
IsSuffix(s, t) ==
  Len(s) <= Len(t) /\ SubSeq(t, Len(t) - Len(s) + 1, Len(t)) = s

\* URLs the login page can be at.  pathname is the sequence of path
\* segments (<<>> is "/"), search the hosts named in the query string.
LandingUrl ==
  [scheme |-> "https", host |-> TargetHost, pathname |-> <<>>, search |-> <<>>]
NotebookUrl ==
  [scheme |-> "https", host |-> TargetHost, pathname |-> <<"notebook", "abc">>,
   search |-> <<>>]
IdpContinueUrl ==
  [scheme |-> "https", host |-> IdpHost, pathname |-> <<"v3", "signin">>,
   search |-> <<TargetHost>>]
IdpChallengeUrl ==
  [scheme |-> "https", host |-> IdpHost, pathname |-> <<"challenge">>,
   search |-> <<>>]
Urls == {LandingUrl, NotebookUrl, IdpContinueUrl, IdpChallengeUrl}

\* url.origin
Origin(u) == [scheme |-> u.scheme, host |-> u.host]
TargetOrigin == [scheme |-> "https", host |-> TargetHost]

\* url.pathname.includes('/notebook'): a segment that begins with "notebook".
NotebookSegments == {"notebook", "notebooks"}
PathIncludesNotebook(u) ==
  \E i \in 1..Len(u.pathname) : u.pathname[i] \in NotebookSegments

\* The predicate handed to page.waitForURL.
UrlPredicate(u) ==
  /\ Origin(u) = TargetOrigin
  /\ (PathIncludesNotebook(u) \/ u.pathname = <<>>)

\* page.url().includes('notebooklm.google.com'): the host name occurs
\* anywhere in the URL text, in the host or in the query string.
UrlIncludes(u, h) ==
  \/ IsInfix(h, u.host)
  \/ \E i \in 1..Len(u.search) : IsInfix(h, u.search[i])
UrlIncludesTarget(u) == UrlIncludes(u, TargetHost)

\* ------------------------------------------------------------ cookies

CookieNames == {"SID", "__Secure-3PSID", "HSID"}
CookieDomains == {TargetHost, GoogleDomain, IdpHost}
CookieValues == {<<"a">>, <<"\"", "b", "=">>}
Cookies == [name : CookieNames, value : CookieValues, domain : CookieDomains]

SessionCookieNames == {"__Secure-3PSID", "SID"}
REQUIRED_COOKIES == <<"SID", "HSID", "SSID", "APISID", "SAPISID">>

\* cookies.find / cookies.some (c => c.name === '__Secure-3PSID' || c.name === 'SID')
HasSessionCookie(cs) ==
  \E i \in 1..Len(cs) : cs[i].name \in SessionCookieNames

\* A cookie set on domain d is sent to host h when d is h or a parent of h.
DomainMatches(d, h) == IsSuffix(d, h)

RECURSIVE SelectCookies(_, _)
SelectCookies(cs, h) ==
  IF cs = <<>> THEN <<>>
  ELSE IF DomainMatches(Head(cs).domain, h)
       THEN <<Head(cs)>> \o SelectCookies(Tail(cs), h)
       ELSE SelectCookies(Tail(cs), h)

\* The mutant: context.cookies() without a URL returns the whole jar.
CookiesForUnscoped(cs, h) == cs

\* context.cookies('https://notebooklm.google.com')
CookiesFor(cs, h) == SelectCookies(cs, h)

\* A Map keeps its entries in insertion order; set() of a present key
\* replaces the value in place.
MapHas(m, k) == \E i \in 1..Len(m) : m[i].name = k
MapSet(m, k, v) ==
  IF MapHas(m, k)
  THEN [i \in 1..Len(m) |->
          IF m[i].name = k THEN [name |-> k, value |-> v] ELSE m[i]]
  ELSE Append(m, [name |-> k, value |-> v])

RECURSIVE BuildFrom(_, _)
BuildFrom(m, cs) ==
  IF cs = <<>> THEN m
  ELSE BuildFrom(MapSet(m, Head(cs).name, Head(cs).value), Tail(cs))

\* The mutant: has() guards set(), so the first value of a name is kept.
RECURSIVE KeepFirstFrom(_, _)
KeepFirstFrom(m, cs) ==
  IF cs = <<>> THEN m
  ELSE IF MapHas(m, Head(cs).name)
       THEN KeepFirstFrom(m, Tail(cs))
       ELSE KeepFirstFrom(Append(m, [name |-> Head(cs).name,
                                     value |-> Head(cs).value]), Tail(cs))
BuildCookieMapKeepFirst(cs) == KeepFirstFrom(<<>>, cs)

\* for (const c of allCookies) cookieMap.set(c.name, c.value)
BuildCookieMap(cs) == BuildFrom(<<>>, cs)

\* parts.join(sep)
RECURSIVE Join(_, _)
Join(parts, sep) ==
  IF parts = <<>> THEN <<>>
  ELSE IF Len(parts) = 1 THEN parts[1]
       ELSE parts[1] \o <<sep>> \o Join(Tail(parts), sep)

\* Array.from(cookieMap.entries()).map(([n, v]) => `${n}=${v}`).join('; ')
CookieString(m) ==
  Join([i \in 1..Len(m) |-> <<m[i].name, "=">> \o m[i].value], "; ")

\* REQUIRED_COOKIES.filter(name => !cookieMap.has(name))
MissingCookies(m) ==
  {REQUIRED_COOKIES[i] : i \in {j \in 1..Len(REQUIRED_COOKIES) :
                                   ~MapHas(m, REQUIRED_COOKIES[j])}}

\* --------------------------------------------------------- text and JSON

Quote == "\""
Backslash == "\\"

Min(a, b) == IF a < b THEN a ELSE b
Max(a, b) == IF a > b THEN a ELSE b

\* String.prototype.indexOf, 0-based, -1 when absent.
IndexOf(s, tok) ==
  IF \E i \in 1..Len(s) : s[i] = tok
  THEN (CHOOSE i \in 1..Len(s) :
          s[i] = tok /\ \A j \in 1..(i - 1) : s[j] # tok) - 1
  ELSE -1

\* String.prototype.substring(start, end): both ends clamped to
\* [0, length] and swapped when start > end.
Substring(s, start, end) ==
  LET a == Min(Max(start, 0), Len(s))
      b == Min(Max(end, 0), Len(s))
  IN  SubSeq(s, Min(a, b) + 1, Max(a, b))

\* String.prototype.split(sep): "" splits into one empty piece.
RECURSIVE SplitFrom(_, _, _)
SplitFrom(s, sep, cur) ==
  IF s = <<>> THEN <<cur>>
  ELSE IF Head(s) = sep
       THEN <<cur>> \o SplitFrom(Tail(s), sep, <<>>)
       ELSE SplitFrom(Tail(s), sep, Append(cur, Head(s)))
Split(s, sep) == SplitFrom(s, sep, <<>>)

\* JSON string quoting: a quote or a backslash is written after a backslash.
RECURSIVE JsonEscape(_)
JsonEscape(s) ==
  IF s = <<>> THEN <<>>
  ELSE IF Head(s) \in {Quote, Backslash}
       THEN <<Backslash, Head(s)>> \o JsonEscape(Tail(s))
       ELSE <<Head(s)>> \o JsonEscape(Tail(s))
JsonString(s) == <<Quote>> \o JsonEscape(s) \o <<Quote>>

\* The mutant: the record is written without quoting the cookie string.
JsonStringifyRaw(rec) ==
  <<"{">> \o JsonString(<<"cookies">>) \o <<":">>
    \o <<Quote>> \o rec.cookies \o <<Quote>>
    \o <<",">> \o JsonString(<<"updatedAt">>) \o <<":">>
    \o JsonString(<<rec.updatedAt>>) \o <<"}">>

\* JSON.stringify({cookies, updatedAt}, null, 2), white space left out.
JsonStringify(rec) ==
  <<"{">> \o JsonString(<<"cookies">>) \o <<":">> \o JsonString(rec.cookies)
    \o <<",">> \o JsonString(<<"updatedAt">>) \o <<":">>
    \o JsonString(<<rec.updatedAt>>) \o <<"}">>

SyntaxError == [ok |-> FALSE, value |-> <<>>, next |-> 0]

\* Reads a string literal whose opening quote is before position i.
RECURSIVE ScanString(_, _, _)
ScanString(t, i, acc) ==
  IF i > Len(t) THEN SyntaxError
  ELSE IF t[i] = Quote THEN [ok |-> TRUE, value |-> acc, next |-> i + 1]
  ELSE IF t[i] = Backslash
       THEN IF i + 1 > Len(t) THEN SyntaxError
            ELSE ScanString(t, i + 2, Append(acc, t[i + 1]))
       ELSE ScanString(t, i + 1, Append(acc, t[i]))
ReadString(t, i) ==
  IF i <= Len(t) /\ t[i] = Quote THEN ScanString(t, i + 1, <<>>)
  ELSE SyntaxError
Expect(t, i, tok) == i <= Len(t) /\ t[i] = tok

ParseFailure == [ok |-> FALSE, cookies |-> <<>>, updatedAt |-> ""]

\* JSON.parse of the record's text; ok is FALSE where it throws.
JsonParse(t) ==
  IF ~Expect(t, 1, "{") THEN ParseFailure
  ELSE LET k1 == ReadString(t, 2) IN
  IF ~(k1.ok /\ k1.value = <<"cookies">> /\ Expect(t, k1.next, ":"))
  THEN ParseFailure
  ELSE LET v1 == ReadString(t, k1.next + 1) IN
  IF ~(v1.ok /\ Expect(t, v1.next, ",")) THEN ParseFailure
  ELSE LET k2 == ReadString(t, v1.next + 1) IN
  IF ~(k2.ok /\ k2.value = <<"updatedAt">> /\ Expect(t, k2.next, ":"))
  THEN ParseFailure
  ELSE LET v2 == ReadString(t, k2.next + 1) IN
  IF ~(v2.ok /\ Len(v2.value) = 1 /\ Expect(t, v2.next, "}")
        /\ v2.next = Len(t))
  THEN ParseFailure
  ELSE [ok |-> TRUE, cookies |-> v1.value, updatedAt |-> v2.value[1]]

\* new Date().toISOString(): the wall clock's reading at the call.
Timestamps == {"T1", "T2"}

\* The session record's file: absent, or present with its text.
NoFile == [exists |-> FALSE, text |-> <<>>]
FileWith(t) == [exists |-> TRUE, text |-> t]

\* ------------------------------------------------------------- state

VARIABLES
  pc,            \* where runAuthentication is
  browser,       \* "none", "open" or "closed"
  url,           \* page.url()
  appMarker,     \* the page shows an element the app selector matches
  accountMarker, \* the page shows an element the account selector matches
  jar,           \* the browser context's cookies, in the order it returns them
  sig,           \* the four racing promises
  race,          \* the Promise.race of the four
  isDone,        \* the isDone flag
  loop,          \* where checkLoop is
  error,         \* what runAuthentication threw
  cookieMap,     \* the Map built from the extracted cookies
  missing,       \* missingCookies
  warned,        \* the missing-cookies warning was printed
  authData,      \* the record runAuthentication is about to write
  file,          \* the session record on disk
  lastSaved,     \* the cookie string of the last completed write
  fixPc,         \* where the fix-cookies script is
  fixData,       \* what fix-cookies parsed from the record
  fixReport,     \* the Before and After counts it printed
  fixNew,        \* newData
  readPc,        \* where a caller of getSavedCookies is
  readResult,    \* what getSavedCookies returned or threw
  taPc,          \* where the test-auth script is
  taCookies,     \* the cookie string test-auth sends
  taResponse,    \* what its GET came back with
  taScan,        \* hasCSRF and hasSID, once the body was scanned
  taVerdict,     \* what test-auth reported
  clPc,          \* where the client's init is
  clResponse,    \* what init's GET came back with
  csrfToken,     \* the client's csrfToken
  sessionId,     \* the client's sessionId
  initialized,   \* the client's initialized flag
  clError,       \* what init threw
  tiReport,      \* what testInit read from the client and returned
  trPc,          \* where testResearch is
  now,           \* Date.now(), in ms
  startTime,     \* testResearch's startTime
  completed,     \* testResearch's completed flag
  taskStatus,    \* the research task's status at the service
  lastResult,    \* the status of the last poll response
  polls,         \* pollResearch calls issued
  lastReturnAt,  \* when the last poll response arrived
  trReport,      \* what testResearch reported
  updPc,         \* where checkForUpdates is, in the youngest process
  runsFrom,      \* the installation the server was started from
  pkgVersion,    \* the version in each installation's package.json
  published,     \* the version the registry serves as latest
  currentVersion,\* pkg.version as the youngest process read it
  latestVersion, \* data.version as the youngest process received it
  generation,    \* relaunches so far: the length of the process chain
  installLog     \* the (current, latest) pairs installs were run for

authVars == <<pc, browser, url, appMarker, accountMarker, jar, sig, race,
              isDone, loop, error, cookieMap, missing, warned, authData>>
fixVars == <<fixPc, fixData, fixReport, fixNew>>
readVars == <<readPc, readResult>>
storeVars == <<file, lastSaved>>
taVars == <<taPc, taCookies, taResponse, taScan, taVerdict>>
clVars == <<clPc, clResponse, csrfToken, sessionId, initialized, clError,
            tiReport>>
trVars == <<trPc, now, startTime, completed, taskStatus, lastResult, polls,
            lastReturnAt, trReport>>
updVars == <<updPc, runsFrom, pkgVersion, published, currentVersion,
             latestVersion, generation, installLog>>
vars == <<authVars, storeVars, fixVars, readVars, taVars, clVars, trVars,
          updVars>>

Signals == 1..4
PageSignals == 1..3
NoRecord == [cookies |-> <<>>, updatedAt |-> ""]

AuthInit ==
  /\ pc = "idle"
  /\ browser = "none"
  /\ url = LandingUrl
  /\ appMarker = FALSE
  /\ accountMarker = FALSE
  /\ jar = <<>>
  /\ sig = [i \in Signals |-> "none"]
  /\ race = "none"
  /\ isDone = FALSE
  /\ loop = "none"
  /\ error = "none"
  /\ cookieMap = <<>>
  /\ missing = {}
  /\ warned = FALSE
  /\ authData = NoRecord

FixInit ==
  /\ fixPc = "idle"
  /\ fixData = <<>>
  /\ fixReport = [before |-> 0, after |-> 0]
  /\ fixNew = NoRecord

ReadInit ==
  /\ readPc = "idle"
  /\ readResult = [status |-> "none", cookies |-> <<>>]

\* ------------------------------------------------- runAuthentication

\* catch (e) { throw new Error('Authentication timed out or browser was
\* closed.') } finally { isDone = true }
AuthenticationFailed == "Authentication timed out or browser was closed."

\* Promise.race settles as its first settled member does.
RaceAfter(r, outcome) == IF r = "pending" THEN outcome ELSE r

\* A racing promise resolves: its then-callback sets isDone, and the race,
\* if still pending, resolves and runAuthentication goes on to line 96.
SignalFires(i) ==
  /\ sig[i] = "pending"
  /\ sig' = [sig EXCEPT ![i] = "resolved"]
  /\ isDone' = TRUE
  /\ race' = RaceAfter(race, "resolved")
  /\ pc' = IF race = "pending" THEN "postwait" ELSE pc

\* The mutant: the app selector's wait has a shorter timeout of its own
\* (the option left out), and rejects alone.
PageWaitsRejectEarly ==
  /\ sig' = [sig EXCEPT ![2] = IF sig[2] = "pending" THEN "rejected"
                                ELSE sig[2]]
  /\ race' = RaceAfter(race, "rejected")
  /\ IF race = "pending"
     THEN pc' = "failed" /\ error' = AuthenticationFailed /\ isDone' = TRUE
     ELSE UNCHANGED <<pc, error, isDone>>

\* The pending page waits reject; the race, if still pending, rejects, the
\* catch block throws and the finally block sets isDone.
PageWaitsReject ==
  /\ sig' = [i \in Signals |->
               IF i \in PageSignals /\ sig[i] = "pending" THEN "rejected"
               ELSE sig[i]]
  /\ race' = RaceAfter(race, "rejected")
  /\ IF race = "pending"
     THEN pc' = "failed" /\ error' = AuthenticationFailed /\ isDone' = TRUE
     ELSE UNCHANGED <<pc, error, isDone>>

\* Lines 41-93: launch, newContext, newPage, goto, then the four racers are
\* started; checkLoop runs at once and awaits context.cookies().
Launch ==
  /\ pc = "idle"
  /\ browser' = "open"
  /\ \E u \in {LandingUrl, IdpContinueUrl} : url' = u
  /\ appMarker' = FALSE
  /\ accountMarker' = FALSE
  /\ jar' = <<>>
  /\ sig' = [i \in Signals |-> "pending"]
  /\ race' = "pending"
  /\ isDone' = FALSE
  /\ loop' = "inflight"
  /\ pc' = "waiting"
  /\ error' = "none"
  /\ cookieMap' = <<>>
  /\ missing' = {}
  /\ warned' = FALSE
  /\ authData' = NoRecord
  /\ UNCHANGED <<storeVars, fixVars, readVars, taVars,
                 clVars, trVars, updVars>>

\* A page wait that resolves after the race has settled only sets isDone,
\* which the settling has already set: the three page signals are modelled
\* while the race is pending.
\* Signal 1: page.waitForURL(predicate, { timeout: 300000 })
UrlSignal ==
  /\ browser = "open"
  /\ race = "pending"
  /\ UrlPredicate(url)
  /\ SignalFires(1)
  /\ UNCHANGED <<browser, url, appMarker, accountMarker, jar, loop, error,
                 cookieMap, missing, warned, authData, storeVars, fixVars,
                 readVars, taVars,
                 clVars, trVars, updVars>>

\* Signal 2: page.waitForSelector(main app structure, { timeout: 300000 })
AppSelectorSignal ==
  /\ browser = "open"
  /\ race = "pending"
  /\ appMarker
  /\ SignalFires(2)
  /\ UNCHANGED <<browser, url, appMarker, accountMarker, jar, loop, error,
                 cookieMap, missing, warned, authData, storeVars, fixVars,
                 readVars, taVars,
                 clVars, trVars, updVars>>

\* Signal 3: page.waitForSelector(account indicators, { timeout: 300000 })
AccountSelectorSignal ==
  /\ browser = "open"
  /\ race = "pending"
  /\ accountMarker
  /\ SignalFires(3)
  /\ UNCHANGED <<browser, url, appMarker, accountMarker, jar, loop, error,
                 cookieMap, missing, warned, authData, storeVars, fixVars,
                 readVars, taVars,
                 clVars, trVars, updVars>>

\* The mutant: the failure handler removes the record it takes for stale.
WaitTimeoutClearsRecord ==
  /\ browser = "open"
  /\ \E i \in PageSignals : sig[i] = "pending"
  /\ PageWaitsReject
  /\ file' = IF race = "pending" THEN NoFile ELSE file
  /\ UNCHANGED <<browser, url, appMarker, accountMarker, jar, loop,
                 cookieMap, missing, warned, authData, lastSaved, fixVars,
                 readVars, taVars,
                 clVars, trVars, updVars>>

\* The 300000 ms timers of the three page waits, started together, expire.
WaitTimeout ==
  /\ browser = "open"
  /\ \E i \in PageSignals : sig[i] = "pending"
  /\ PageWaitsReject
  /\ UNCHANGED <<browser, url, appMarker, accountMarker, jar, loop,
                 cookieMap, missing, warned, authData, storeVars, fixVars,
                 readVars, taVars,
                 clVars, trVars, updVars>>

\* The user closes the browser window (or the browser dies).
BrowserGone ==
  /\ browser = "open"
  /\ browser' = "closed"
  /\ PageWaitsReject
  /\ UNCHANGED <<url, appMarker, accountMarker, jar, loop, cookieMap, missing,
                 warned, authData, storeVars, fixVars, readVars, taVars,
                 clVars, trVars, updVars>>

\* The session-cookie test of checkLoop (lines 80-81).
CookieSignal(cs, u) == HasSessionCookie(cs) /\ UrlIncludesTarget(u)

\* Signal 4, lines 79-89: the await of context.cookies() in checkLoop ends.
LoopCheck ==
  /\ loop = "inflight"
  /\ IF browser # "open"
     THEN /\ isDone' = TRUE
          /\ loop' = "stopped"
          /\ UNCHANGED <<sig, race, pc>>
     ELSE IF CookieSignal(jar, url)
     THEN /\ SignalFires(4)
          /\ loop' = "stopped"
     ELSE /\ loop' = IF isDone THEN "stopped" ELSE "timer"
          /\ UNCHANGED <<sig, race, pc, isDone>>
  /\ UNCHANGED <<browser, url, appMarker, accountMarker, jar, error,
                 cookieMap, missing, warned, authData, storeVars, fixVars,
                 readVars, taVars,
                 clVars, trVars, updVars>>

\* The mutant: checkLoop without the test of isDone at its head.
LoopTimerUnguarded ==
  /\ loop = "timer"
  /\ loop' = "inflight"
  /\ UNCHANGED <<pc, browser, url, appMarker, accountMarker, jar, sig, race,
                 isDone, error, cookieMap, missing, warned, authData,
                 storeVars, fixVars, readVars, taVars,
                 clVars, trVars, updVars>>

\* setTimeout(checkLoop, 2000) fires: line 77, then line 79.
LoopTimer ==
  /\ loop = "timer"
  /\ loop' = IF isDone THEN "stopped" ELSE "inflight"
  /\ UNCHANGED <<pc, browser, url, appMarker, accountMarker, jar, sig, race,
                 isDone, error, cookieMap, missing, warned, authData,
                 storeVars, fixVars, readVars, taVars,
                 clVars, trVars, updVars>>

\* Lines 96-104: finalCookies = await context.cookies(); hasSid.
PostWaitCookies ==
  /\ pc = "postwait"
  /\ IF browser # "open"
     THEN pc' = "failed" /\ error' = AuthenticationFailed
     ELSE /\ pc' = IF HasSessionCookie(jar) THEN "extracting" ELSE "verifying"
          /\ UNCHANGED error
  /\ UNCHANGED <<browser, url, appMarker, accountMarker, jar, sig, race,
                 isDone, loop, cookieMap, missing, warned, authData,
                 storeVars, fixVars, readVars, taVars,
                 clVars, trVars, updVars>>

\* Line 103: await page.waitForTimeout(3000) ends.
VerifyWait ==
  /\ pc = "verifying"
  /\ IF browser # "open"
     THEN pc' = "failed" /\ error' = AuthenticationFailed
     ELSE pc' = "extracting" /\ UNCHANGED error
  /\ UNCHANGED <<browser, url, appMarker, accountMarker, jar, sig, race,
                 isDone, loop, cookieMap, missing, warned, authData,
                 storeVars, fixVars, readVars, taVars,
                 clVars, trVars, updVars>>

\* Lines 119-149 up to the open of the record's file: the await of
\* context.cookies('https://notebooklm.google.com') ends, the Map, the cookie
\* string and authData are built, the missing required names are reported,
\* and fs.writeFileSync opens the file for writing, which creates or empties
\* it.  strict is the mutant's switch: the code never throws here.
ExtractStep(strict) ==
  /\ pc = "extracting"
  /\ IF browser # "open"
     THEN /\ pc' = "failed"
          /\ error' = "Target closed"
          /\ UNCHANGED <<cookieMap, missing, warned, authData, file>>
     ELSE LET m == BuildCookieMap(CookiesFor(jar, TargetHost))
              ms == MissingCookies(m)
          IN  /\ cookieMap' = m
              /\ missing' = ms
              /\ warned' = (ms # {})
              /\ \E ts \in Timestamps :
                   authData' = [cookies |-> CookieString(m), updatedAt |-> ts]
              /\ IF strict /\ ms # {}
                 THEN /\ pc' = "failed"
                      /\ error' = "Missing required cookies"
                      /\ UNCHANGED file
                 ELSE /\ pc' = "writing"
                      /\ file' = FileWith(<<>>)
                      /\ UNCHANGED error
  /\ UNCHANGED <<browser, url, appMarker, accountMarker, jar, sig, race,
                 isDone, loop, lastSaved, fixVars, readVars, taVars,
                 clVars, trVars, updVars>>

\* The mutant: a missing required cookie is a hard failure.
ExtractCookiesStrict == ExtractStep(TRUE)

ExtractCookies == ExtractStep(FALSE)

\* fs.writeFileSync writes the text into the opened file and closes it.
WriteRecord ==
  /\ pc = "writing"
  /\ file' = FileWith(JsonStringify(authData))
  /\ lastSaved' = authData.cookies
  /\ pc' = "closing"
  /\ UNCHANGED <<browser, url, appMarker, accountMarker, jar, sig, race,
                 isDone, loop, error, cookieMap, missing, warned, authData,
                 fixVars, readVars, taVars,
                 clVars, trVars, updVars>>

\* Line 152: await browser.close(); the page waits still pending end with it.
CloseBrowser ==
  /\ pc = "closing"
  /\ browser' = "closed"
  /\ sig' = [i \in Signals |->
               IF i \in PageSignals /\ sig[i] = "pending" THEN "rejected"
               ELSE sig[i]]
  /\ pc' = "done"
  /\ UNCHANGED <<url, appMarker, accountMarker, jar, race, isDone, loop,
                 error, cookieMap, missing, warned, authData, storeVars,
                 fixVars, readVars, taVars,
                 clVars, trVars, updVars>>

\* ------------------------------------- the user and the remote pages

\* Something of runAuthentication can still read the page or the jar: the
\* wait, the check loop, or the reads of lines 96 and 119.  Changes of the
\* page that nothing reads any more are left out.
LoopAlive == loop \in {"inflight", "timer"}
PageWatched == race = "pending" \/ LoopAlive
JarWatched ==
  pc \in {"waiting", "postwait", "verifying", "extracting"} \/ LoopAlive

\* Cookies the responses of a login set: the account's, on the parent
\* domain, and the identity provider's own.
LoginCookies ==
  {c \in Cookies : c.value = <<"a">> /\ c.domain \in {GoogleDomain, IdpHost}}

\* The jar holds one cookie per (name, domain); a cookie set again keeps
\* its place.
JarHas(j, c) ==
  \E i \in 1..Len(j) : j[i].name = c.name /\ j[i].domain = c.domain
JarSet(j, c) ==
  IF JarHas(j, c)
  THEN [i \in 1..Len(j) |->
          IF j[i].name = c.name /\ j[i].domain = c.domain THEN c ELSE j[i]]
  ELSE Append(j, c)

\* The page navigates (redirect, form post, link); the new document has
\* none of the old one's elements.
Navigate ==
  /\ browser = "open"
  /\ PageWatched
  /\ \E u \in Urls \ {url} : url' = u
  /\ appMarker' = FALSE
  /\ accountMarker' = FALSE
  /\ UNCHANGED <<pc, browser, jar, sig, race, isDone, loop, error, cookieMap,
                 missing, warned, authData, storeVars, fixVars, readVars, taVars,
                 clVars, trVars, updVars>>

\* The page renders an element the app selector matches.
ShowAppMarker ==
  /\ browser = "open"
  /\ race = "pending"
  /\ ~appMarker
  /\ appMarker' = TRUE
  /\ UNCHANGED <<pc, browser, url, accountMarker, jar, sig, race, isDone,
                 loop, error, cookieMap, missing, warned, authData, storeVars,
                 fixVars, readVars, taVars,
                 clVars, trVars, updVars>>

\* The page renders an element the account selector matches.
ShowAccountMarker ==
  /\ browser = "open"
  /\ race = "pending"
  /\ ~accountMarker
  /\ accountMarker' = TRUE
  /\ UNCHANGED <<pc, browser, url, appMarker, jar, sig, race, isDone, loop,
                 error, cookieMap, missing, warned, authData, storeVars,
                 fixVars, readVars, taVars,
                 clVars, trVars, updVars>>

\* A response sets a cookie.
SetCookie ==
  /\ browser = "open"
  /\ JarWatched
  /\ \E c \in LoginCookies :
       /\ JarHas(jar, c) \/ Len(jar) < MaxJar
       /\ jar' = JarSet(jar, c)
       /\ jar' # jar
  /\ UNCHANGED <<pc, browser, url, appMarker, accountMarker, sig, race,
                 isDone, loop, error, cookieMap, missing, warned, authData,
                 storeVars, fixVars, readVars, taVars,
                 clVars, trVars, updVars>>

\* ---------------------------------------------------------- fix-cookies

\* Lines 10-18: the first value seen for a name is kept.
RECURSIVE SeenFrom(_, _)
SeenFrom(seen, pairs) ==
  IF pairs = <<>> THEN seen
  ELSE LET pair == Head(pairs)
           eq == IndexOf(pair, "=")
           name == Substring(pair, 0, eq)
           value == Substring(pair, eq + 1, Len(pair))
       IN  SeenFrom(IF MapHas(seen, name) THEN seen
                    ELSE MapSet(seen, name, value), Tail(pairs))

FixSeen(pairs) == SeenFrom(<<>>, pairs)

\* Line 20: Array.from(seen.entries()).map(([n, v]) => `${n}=${v}`).join('; ')
FixDeduped(seen) ==
  Join([i \in 1..Len(seen) |-> seen[i].name \o <<"=">> \o seen[i].value], "; ")

FixIdle == [before |-> 0, after |-> 0]

\* Lines 6-24: the record is read and parsed (either throws and ends the
\* script), split, deduplicated, counted and newData is built.
FixRead ==
  /\ fixPc \in {"idle", "done", "crashed"}
  /\ IF ~file.exists \/ ~JsonParse(file.text).ok
     THEN /\ fixPc' = "crashed"
          /\ fixData' = <<>>
          /\ fixReport' = FixIdle
          /\ fixNew' = NoRecord
     ELSE LET pairs == Split(JsonParse(file.text).cookies, "; ")
              seen == FixSeen(pairs)
          IN  /\ fixData' = JsonParse(file.text).cookies
              /\ fixReport' = [before |-> Len(pairs), after |-> Len(seen)]
              /\ \E ts \in Timestamps :
                   fixNew' = [cookies |-> FixDeduped(seen), updatedAt |-> ts]
              /\ fixPc' = "computed"
  /\ UNCHANGED <<authVars, storeVars, readVars, taVars,
                 clVars, trVars, updVars>>

\* Line 25: fs.writeFileSync opens the record's file, which empties it.
FixOpen ==
  /\ fixPc = "computed"
  /\ file' = FileWith(<<>>)
  /\ fixPc' = "writing"
  /\ UNCHANGED <<authVars, lastSaved, fixData, fixReport, fixNew, readVars,
                 taVars,
                 clVars, trVars, updVars>>

\* Line 25: the text is written and the file closed.
FixWrite ==
  /\ fixPc = "writing"
  /\ file' = FileWith(JsonStringify(fixNew))
  /\ lastSaved' = fixNew.cookies
  /\ fixPc' = "done"
  /\ UNCHANGED <<authVars, fixData, fixReport, fixNew, readVars, taVars,
                 clVars, trVars, updVars>>

\* ------------------------------------------------------ getSavedCookies

NoResult == [status |-> "none", cookies |-> <<>>]
NotAuthenticated == "Authentication required. Please run notebook-mcp-auth"

\* Lines 155-161, called from another process than the writers'.
GetSavedCookies ==
  /\ readPc = "idle"
  /\ readResult' =
       IF ~file.exists
       THEN [status |-> NotAuthenticated, cookies |-> <<>>]
       ELSE IF ~JsonParse(file.text).ok
       THEN [status |-> "SyntaxError", cookies |-> <<>>]
       ELSE [status |-> "ok", cookies |-> JsonParse(file.text).cookies]
  /\ readPc' = "returned"
  /\ UNCHANGED <<authVars, storeVars, fixVars, taVars,
                 clVars, trVars, updVars>>

\* The caller takes the result; getSavedCookies can be called again.
ReadReturn ==
  /\ readPc = "returned"
  /\ readPc' = "idle"
  /\ readResult' = NoResult
  /\ UNCHANGED <<authVars, storeVars, fixVars, taVars,
                 clVars, trVars, updVars>>

\* ------------------------------------------- test-auth's init request

\* Longest redirect chain a modelled server answers with.
MaxHops == 6
\* maxRedirects: 5
MaxRedirects == 5

\* A page of the target whose query string names the identity provider.
TargetAfterLoginUrl ==
  [scheme |-> "https", host |-> TargetHost, pathname |-> <<>>,
   search |-> <<IdpHost>>]
ResponseUrls == Urls \cup {TargetAfterLoginUrl}
IdpOrigin == [scheme |-> "https", host |-> IdpHost]

\* Bodies: with or without the two markers; <<>> is a body that is no string.
Bodies ==
  {<<>>, <<"html">>, <<"html", "SNlM0e">>, <<"FdrFJe", "html">>,
   <<"SNlM0e", "html", "FdrFJe">>}
HtmlIncludes(html, marker) == \E i \in 1..Len(html) : html[i] = marker

\* What the server does with the GET: the redirects it answers with, where
\* they end, and the status and body it serves there.
Responses ==
  [hops : 0..MaxHops, status : {200, 403}, finalUrl : ResponseUrls,
   body : Bodies]
NoResponse ==
  [hops |-> 0, status |-> 0, finalUrl |-> LandingUrl, body |-> <<>>]
NotScanned == [done |-> FALSE, hasCSRF |-> FALSE, hasSID |-> FALSE]

\* axios rejects when the chain is longer than maxRedirects or the status
\* is not 2xx.
AxiosThrows(resp) == resp.hops > MaxRedirects \/ resp.status # 200

\* The mutant: the request's own URL is taken, not the response's.
FinalUrlOfRequest(resp) == LandingUrl

\* Line 61: response.request?.res?.responseUrl || response.config?.url || ''
\* (Node's adapter always sets responseUrl, to where the redirects ended).
FinalUrl(resp) == resp.finalUrl

\* Lines 12-59: no record ends the script; else the cookies are read and
\* the GET is sent.
TaStart ==
  /\ taPc = "idle"
  /\ IF ~file.exists
     THEN taPc' = "exited" /\ UNCHANGED taCookies
     ELSE IF ~JsonParse(file.text).ok
     THEN taPc' = "crashed" /\ UNCHANGED taCookies
     ELSE taPc' = "requesting" /\ taCookies' = JsonParse(file.text).cookies
  /\ UNCHANGED <<taResponse, taScan, taVerdict, authVars, storeVars, fixVars,
                 readVars,
                 clVars, trVars, updVars>>

\* Lines 50-88: the GET settles.
TaResponse ==
  /\ taPc = "requesting"
  /\ \E resp \in Responses :
       /\ taResponse' = resp
       /\ IF AxiosThrows(resp)
          THEN taVerdict' = "request failed" /\ taScan' = NotScanned
          ELSE IF UrlIncludes(FinalUrl(resp), IdpHost)
          THEN taVerdict' = "expired" /\ taScan' = NotScanned
          ELSE /\ taScan' = [done |-> TRUE,
                             hasCSRF |-> HtmlIncludes(resp.body, "SNlM0e"),
                             hasSID |-> HtmlIncludes(resp.body, "FdrFJe")]
               /\ taVerdict' = IF HtmlIncludes(resp.body, "SNlM0e")
                               THEN "working" ELSE "partial"
  /\ taPc' = "done"
  /\ UNCHANGED <<taCookies, authVars, storeVars, fixVars, readVars,
                 clVars, trVars, updVars>>

TaInit ==
  /\ taPc = "idle"
  /\ taCookies = <<>>
  /\ taResponse = NoResponse
  /\ taScan = NotScanned
  /\ taVerdict = "none"

\* ------------------------------------------------- the client's init
\* NotebookLMClient.init() as the bootstrap contract describes it, and
\* testInit, which calls it and reads the client's fields.

\* The markers the entry page embeds the two tokens under.
CsrfMarker == "SNlM0e"
SessionMarker == "FdrFJe"

\* A token field that holds nothing.
Null == "null"
ScanToken(html, marker) == IF HtmlIncludes(html, marker) THEN marker ELSE Null

NoReport ==
  [read |-> FALSE, csrf |-> FALSE, session |-> FALSE, initialized |-> FALSE,
   result |-> FALSE]

ClInit ==
  /\ clPc = "idle"
  /\ clResponse = NoResponse
  /\ csrfToken = Null
  /\ sessionId = Null
  /\ initialized = FALSE
  /\ clError = "none"
  /\ tiReport = NoReport

\* testInit line 106: init() is called and issues its GET of the entry page.
ClientInitStart ==
  /\ clPc = "idle"
  /\ clPc' = "requesting"
  /\ UNCHANGED <<clResponse, csrfToken, sessionId, initialized, clError,
                 tiReport, authVars, storeVars, fixVars, readVars, taVars,
                 trVars, updVars>>

\* The mutant: the session identifier is stored as soon as it is found,
\* before the anti-forgery token is looked for.
ClientInitPiecewise ==
  /\ clPc = "requesting"
  /\ \E resp \in Responses :
       /\ clResponse' = resp
       /\ IF AxiosThrows(resp)
          THEN /\ clError' = "RemoteServiceError"
               /\ clPc' = "threw"
               /\ UNCHANGED <<csrfToken, sessionId, initialized>>
          ELSE IF Origin(FinalUrl(resp)).host = IdpHost
          THEN /\ clError' = "SessionExpired"
               /\ clPc' = "threw"
               /\ UNCHANGED <<csrfToken, sessionId, initialized>>
          ELSE IF ~HtmlIncludes(resp.body, CsrfMarker)
          THEN /\ clError' = "SessionExpired"
               /\ clPc' = "threw"
               /\ sessionId' = ScanToken(resp.body, SessionMarker)
               /\ UNCHANGED <<csrfToken, initialized>>
          ELSE /\ csrfToken' = ScanToken(resp.body, CsrfMarker)
               /\ sessionId' = ScanToken(resp.body, SessionMarker)
               /\ initialized' = TRUE
               /\ clPc' = "returned"
               /\ UNCHANGED clError
  /\ UNCHANGED <<tiReport, authVars, storeVars, fixVars, readVars, taVars,
                 trVars, updVars>>

\* The GET settles.  A request that fails, a response that resolved to the
\* identity provider and a page without the anti-forgery token end init
\* with an error and set nothing; otherwise both tokens are set together,
\* the session identifier to nothing when the page has none, and
\* initialized becomes true.
ClientInitResponse ==
  /\ clPc = "requesting"
  /\ \E resp \in Responses :
       /\ clResponse' = resp
       /\ IF AxiosThrows(resp)
          THEN /\ clError' = "RemoteServiceError"
               /\ clPc' = "threw"
               /\ UNCHANGED <<csrfToken, sessionId, initialized>>
          ELSE IF Origin(FinalUrl(resp)).host = IdpHost
                  \/ ~HtmlIncludes(resp.body, CsrfMarker)
          THEN /\ clError' = "SessionExpired"
               /\ clPc' = "threw"
               /\ UNCHANGED <<csrfToken, sessionId, initialized>>
          ELSE /\ csrfToken' = ScanToken(resp.body, CsrfMarker)
               /\ sessionId' = ScanToken(resp.body, SessionMarker)
               /\ initialized' = TRUE
               /\ clPc' = "returned"
               /\ UNCHANGED clError
  /\ UNCHANGED <<tiReport, authVars, storeVars, fixVars, readVars, taVars,
                 trVars, updVars>>

\* testInit lines 108-125: the client's fields are read and !!csrf is
\* returned; an init that threw is reported and false is returned.
TestInit ==
  /\ clPc \in {"returned", "threw"}
  /\ tiReport' = IF clPc = "returned"
                 THEN [read |-> TRUE, csrf |-> csrfToken # Null,
                       session |-> sessionId # Null,
                       initialized |-> initialized,
                       result |-> csrfToken # Null]
                 ELSE NoReport
  /\ clPc' = "reported"
  /\ UNCHANGED <<clResponse, csrfToken, sessionId, initialized, clError,
                 authVars, storeVars, fixVars, readVars, taVars, trVars,
                 updVars>>

\* ------------------------------------------------------- testResearch
\* The caller-side wait loop of test-parts.ts over the research task the
\* service tracks.  Time is Date.now() in ms; it passes while a call is
\* awaited and while the timer of the delay runs.

\* (Date.now() - startTime) < 60000
PollDeadline == 60000
\* setTimeout(r, 3000)
PollDelay == 3000
\* Longest time a call of the client takes, in seconds.
MaxCallSeconds == 1
\* Longest time a timer fires late, in seconds.
MaxLateSeconds == 1
CallTimes == {1000 * k : k \in 0..MaxCallSeconds}
TimerLateness == {1000 * k : k \in 0..MaxLateSeconds}

\* The statuses of a task: pending -> running -> {completed | failed}.
TaskStatuses == {"pending", "running", "completed", "failed"}
TaskSuccessors(st) ==
  CASE st = "pending" -> {"running"}
    [] st = "running" -> {"completed", "failed"}
    [] OTHER -> {}

TrInit ==
  /\ trPc = "idle"
  /\ now = 0
  /\ startTime = 0
  /\ completed = FALSE
  /\ taskStatus = "none"
  /\ lastResult = "none"
  /\ polls = 0
  /\ lastReturnAt = 0
  /\ trReport = "none"

\* Lines 231-236: startResearch is awaited; then startTime and completed.
StartResearch ==
  /\ trPc = "idle"
  /\ \E d \in CallTimes : now' = now + d
  /\ \/ /\ taskStatus' \in {"pending", "running"}
        /\ startTime' = now'
        /\ completed' = FALSE
        /\ trPc' = "loop"
        /\ UNCHANGED trReport
     \/ /\ trReport' = "failed"
        /\ trPc' = "ended"
        /\ UNCHANGED <<taskStatus, startTime, completed>>
  /\ UNCHANGED <<lastResult, polls, lastReturnAt, authVars, storeVars,
                 fixVars, readVars, taVars, clVars, updVars>>

\* The mutant: the loop without its deadline, while (!completed).
LoopHeadNoDeadline ==
  /\ trPc = "loop"
  /\ IF ~completed
     THEN /\ polls' = polls + 1
          /\ trPc' = "polling"
          /\ UNCHANGED trReport
     ELSE /\ trPc' = "ended"
          /\ UNCHANGED <<polls, trReport>>
  /\ UNCHANGED <<now, startTime, completed, taskStatus, lastResult,
                 lastReturnAt, authVars, storeVars, fixVars, readVars, taVars,
                 clVars, updVars>>

\* Lines 238-239 and 252-254: the loop's test; pollResearch is called, or
\* the loop ends and a wait that did not complete is reported as still
\* running.
LoopHead ==
  /\ trPc = "loop"
  /\ IF ~completed /\ now - startTime < PollDeadline
     THEN /\ polls' = polls + 1
          /\ trPc' = "polling"
          /\ UNCHANGED trReport
     ELSE /\ trReport' = IF completed THEN trReport ELSE "still running"
          /\ trPc' = "ended"
          /\ UNCHANGED polls
  /\ UNCHANGED <<now, startTime, completed, taskStatus, lastResult,
                 lastReturnAt, authVars, storeVars, fixVars, readVars, taVars,
                 clVars, updVars>>

\* Lines 239-249 and 255-257: the poll settles.  It throws, or it returns
\* nothing, or it returns the task's current status; 'completed' sets
\* completed, anything else starts the timer of the delay.
PollReturns ==
  /\ trPc = "polling"
  /\ \E d \in CallTimes : now' = now + d
  /\ lastReturnAt' = now'
  /\ \/ /\ lastResult' = "threw"
        /\ trReport' = "failed"
        /\ trPc' = "ended"
        /\ UNCHANGED completed
     \/ /\ \E res \in {"null", taskStatus} :
             /\ lastResult' = res
             /\ IF res = "completed"
                THEN /\ completed' = TRUE
                     /\ trReport' = "completed"
                     /\ trPc' = "loop"
                ELSE /\ trPc' = "sleeping"
                     /\ UNCHANGED <<completed, trReport>>
  /\ UNCHANGED <<startTime, taskStatus, polls, authVars, storeVars, fixVars,
                 readVars, taVars, clVars, updVars>>

\* Line 248: the timer of the delay fires, no earlier than PollDelay.
TimerFires ==
  /\ trPc = "sleeping"
  /\ \E late \in TimerLateness : now' = now + PollDelay + late
  /\ trPc' = "loop"
  /\ UNCHANGED <<startTime, completed, taskStatus, lastResult, polls,
                 lastReturnAt, trReport, authVars, storeVars, fixVars,
                 readVars, taVars, clVars, updVars>>

\* The service moves the task on.
TaskProgress ==
  /\ trPc \in {"loop", "polling", "sleeping"}
  /\ \E st \in TaskSuccessors(taskStatus) : taskStatus' = st
  /\ UNCHANGED <<trPc, now, startTime, completed, lastResult, polls,
                 lastReturnAt, trReport, authVars, storeVars, fixVars,
                 readVars, taVars, clVars, updVars>>

\* ---------------------------------------------------- checkForUpdates
\* The chain of server processes checkForUpdates makes: a process that
\* relaunches waits for its child for ever, so only the youngest runs.

\* Most versions the registry has published.
MaxVersion == 3
\* Most relaunches followed.
MaxChain == 3
Versions == 1..MaxVersion

\* Where the running script lives: the global installation npm install -g
\* writes to, or another one (a project's node_modules, a checkout, a cache).
Locations == {"global", "other"}

UpdIdle ==
  /\ updPc = "idle"
  /\ runsFrom = "global"
  /\ pkgVersion = [l \in Locations |-> 1]
  /\ published = 1
  /\ currentVersion = 0
  /\ latestVersion = 0
  /\ generation = 0
  /\ installLog = <<>>

\* A server process starts, from any installation, at any version.
UpdInit ==
  /\ updPc = "start"
  /\ runsFrom \in Locations
  /\ pkgVersion \in [Locations -> Versions]
  /\ published \in Versions
  /\ currentVersion = 0
  /\ latestVersion = 0
  /\ generation = 0
  /\ installLog = <<>>

\* Lines 126-135: the version of the package.json next to the running
\* script is read and the registry is asked for the latest.
ReadVersion ==
  /\ updPc = "start"
  /\ currentVersion' = pkgVersion[runsFrom]
  /\ updPc' = "checking"
  /\ UNCHANGED <<runsFrom, pkgVersion, published, latestVersion, generation,
                 installLog, authVars, storeVars, fixVars, readVars, taVars,
                 clVars, trVars>>

\* Lines 135-138 and 170-175: the registry answers, or the request fails
\* or times out and the check ends silently.
RegistryAnswers ==
  /\ updPc = "checking"
  /\ \/ /\ latestVersion' = published
        /\ updPc' = IF published # currentVersion THEN "installing"
                    ELSE "serving"
     \/ /\ updPc' = "serving"
        /\ UNCHANGED latestVersion
  /\ UNCHANGED <<runsFrom, pkgVersion, published, currentVersion, generation,
                 installLog, authVars, storeVars, fixVars, readVars, taVars,
                 clVars, trVars>>

\* Lines 142-166: npm install -g ...@latest succeeds and writes the global
\* installation; the same entry point is spawned with the same arguments
\* and this process waits for the child.
InstallAndRelaunch ==
  /\ updPc = "installing"
  /\ generation < MaxChain
  /\ pkgVersion' = [pkgVersion EXCEPT !["global"] = published]
  /\ installLog' = Append(installLog, <<currentVersion, latestVersion>>)
  /\ generation' = generation + 1
  /\ updPc' = "start"
  /\ UNCHANGED <<runsFrom, published, currentVersion, latestVersion,
                 authVars, storeVars, fixVars, readVars, taVars, clVars,
                 trVars>>

\* Lines 167-169: the install throws; the process goes on as it is.
InstallFails ==
  /\ updPc = "installing"
  /\ updPc' = "serving"
  /\ UNCHANGED <<runsFrom, pkgVersion, published, currentVersion,
                 latestVersion, generation, installLog, authVars, storeVars,
                 fixVars, readVars, taVars, clVars, trVars>>

\* A new version is published.
Publish ==
  /\ updPc \in {"start", "checking", "installing"}
  /\ published < MaxVersion
  /\ published' = published + 1
  /\ UNCHANGED <<updPc, runsFrom, pkgVersion, currentVersion, latestVersion,
                 generation, installLog, authVars, storeVars, fixVars,
                 readVars, taVars, clVars, trVars>>

\* -------------------------------------------------------- specifications

\* A record an earlier, unscoped extraction left: "SID=1; SID=2; HSID=x".
LegacyCookies ==
  <<"SID", "=", "1", "; ", "SID", "=", "2", "; ", "HSID", "=", "x">>
LegacyRecord == [cookies |-> LegacyCookies, updatedAt |-> "T0"]
NoSave == <<"(none)">>

\* The record's file before anything runs: none, or an earlier record.
StoreInit ==
  \/ file = NoFile /\ lastSaved = NoSave
  \/ file = FileWith(JsonStringify(LegacyRecord)) /\ lastSaved = LegacyCookies

AuthNext ==
  \/ Launch
  \/ UrlSignal
  \/ AppSelectorSignal
  \/ AccountSelectorSignal
  \/ WaitTimeout
  \/ BrowserGone
  \/ LoopCheck
  \/ LoopTimer
  \/ PostWaitCookies
  \/ VerifyWait
  \/ ExtractCookies
  \/ WriteRecord
  \/ CloseBrowser

PageNext ==
  \/ Navigate
  \/ ShowAppMarker
  \/ ShowAccountMarker
  \/ SetCookie

\* One run of runAuthentication, with the user and the pages it watches.
Init ==
  /\ AuthInit
  /\ FixInit
  /\ ReadInit
  /\ TaInit
  /\ ClInit
  /\ TrInit
  /\ UpdIdle
  /\ StoreInit

Next == AuthNext \/ PageNext

Spec == Init /\ [][Next]_vars

\* Jars of at most n cookies, one per (name, domain).
DistinctKeys(j) ==
  \A a, b \in 1..Len(j) :
    a # b => ~(j[a].name = j[b].name /\ j[a].domain = j[b].domain)
JarsUpTo(n) ==
  {j \in UNION {[1..k -> Cookies] : k \in 0..n} : DistinctKeys(j)}

\* runAuthentication where its login wait has just ended on the URL signal
\* and line 119 is awaited, the jar being any the login can have left.
AtExtraction(jars) ==
  /\ pc = "extracting"
  /\ browser = "open"
  /\ url = NotebookUrl
  /\ appMarker = FALSE
  /\ accountMarker = FALSE
  /\ jar \in jars
  /\ sig = [i \in Signals |-> IF i = 1 THEN "resolved" ELSE "pending"]
  /\ race = "resolved"
  /\ isDone = TRUE
  /\ loop = "stopped"
  /\ error = "none"
  /\ cookieMap = <<>>
  /\ missing = {}
  /\ warned = FALSE
  /\ authData = NoRecord

\* The cookie extraction of runAuthentication over every jar.
InitCookies ==
  /\ AtExtraction(JarsUpTo(MaxCookies))
  /\ FixInit
  /\ ReadInit
  /\ TaInit
  /\ ClInit
  /\ TrInit
  /\ UpdIdle
  /\ file = NoFile
  /\ lastSaved = NoSave

NextCookies ==
  \/ ExtractCookies
  \/ WriteRecord
  \/ CloseBrowser
  \/ BrowserGone

SpecCookies == InitCookies /\ [][NextCookies]_vars

\* Most cookies of the jar in the check of the record's writers and reader.
MaxStoreJar == 1

\* The writers of the record (runAuthentication from its extraction on, and
\* fix-cookies) with a reader in another process.
InitStore ==
  /\ AtExtraction(JarsUpTo(MaxStoreJar))
  /\ FixInit
  /\ ReadInit
  /\ TaInit
  /\ ClInit
  /\ TrInit
  /\ UpdIdle
  /\ StoreInit

NextStore ==
  \/ ExtractCookies
  \/ WriteRecord
  \/ CloseBrowser
  \/ BrowserGone
  \/ FixRead
  \/ FixOpen
  \/ FixWrite
  \/ GetSavedCookies
  \/ ReadReturn

SpecStore == InitStore /\ [][NextStore]_vars

\* Stored cookie strings of at most n pairs.
StoredNames == {"SID", "HSID"}
StoredValues == {<<"1">>, <<"2", "=">>}
StoredPairs == {<<n>> \o <<"=">> \o v : n \in StoredNames, v \in StoredValues}
StoredStrings(n) ==
  {Join(ps, "; ") : ps \in UNION {[1..k -> StoredPairs] : k \in 0..n}}

\* fix-cookies run over every stored cookie string.
InitFix ==
  /\ AuthInit
  /\ FixInit
  /\ ReadInit
  /\ TaInit
  /\ ClInit
  /\ TrInit
  /\ UpdIdle
  /\ \E str \in StoredStrings(MaxPairs) :
       /\ file = FileWith(JsonStringify([cookies |-> str, updatedAt |-> "T0"]))
       /\ lastSaved = str

NextFix ==
  \/ FixRead
  \/ FixOpen
  \/ FixWrite

SpecFix == InitFix /\ [][NextFix]_vars

\* test-auth run on the stored record.
NextInit ==
  \/ TaStart
  \/ TaResponse

SpecInit == Init /\ [][NextInit]_vars

\* testInit run on a fresh client, over every response of the entry page.
NextBootstrap ==
  \/ ClientInitStart
  \/ ClientInitResponse
  \/ TestInit

SpecBootstrap == Init /\ [][NextBootstrap]_vars

\* testResearch with the service moving the task on.  The awaited calls
\* settle and the timer fires; the service is free never to finish.
NextResearch ==
  \/ StartResearch
  \/ LoopHead
  \/ PollReturns
  \/ TimerFires
  \/ TaskProgress

SpecResearch ==
  /\ Init
  /\ [][NextResearch]_vars
  /\ WF_vars(StartResearch)
  /\ WF_vars(LoopHead)
  /\ WF_vars(PollReturns)
  /\ WF_vars(TimerFires)

\* A server process and the processes it relaunches.
InitUpdate ==
  /\ AuthInit
  /\ FixInit
  /\ ReadInit
  /\ TaInit
  /\ ClInit
  /\ TrInit
  /\ UpdInit
  /\ file = NoFile
  /\ lastSaved = NoSave

NextUpdate ==
  \/ ReadVersion
  \/ RegistryAnswers
  \/ InstallAndRelaunch
  \/ InstallFails
  \/ Publish

SpecUpdate == InitUpdate /\ [][NextUpdate]_vars

\* ---------------------------------------------------------------- claims

Extracted == pc \in {"writing", "closing", "done"}

\* The cookies the browser returned for the target URL.
Returned == SelectCookies(jar, TargetHost)
LastIndexOf(cs, n) ==
  CHOOSE k \in 1..Len(cs) :
    cs[k].name = n /\ \A l \in (k + 1)..Len(cs) : cs[l].name # n

\* C1: the cookie set runAuthentication builds has exactly one entry per
\* distinct name of the cookies the browser returned for the target URL, and
\* each entry's value is that of the last returned cookie of that name.
C1_DedupLastWins ==
  Extracted =>
    /\ \A i, j \in 1..Len(cookieMap) :
         i # j => cookieMap[i].name # cookieMap[j].name
    /\ {cookieMap[i].name : i \in 1..Len(cookieMap)}
         = {Returned[k].name : k \in 1..Len(Returned)}
    /\ \A i \in 1..Len(cookieMap) :
         cookieMap[i].value
           = Returned[LastIndexOf(Returned, cookieMap[i].name)].value

\* C1's case: a name returned twice with different values, extracted.
C1_Witness ==
  /\ pc = "done"
  /\ \E k, l \in 1..Len(Returned) :
       /\ k < l
       /\ Returned[k].name = Returned[l].name
       /\ Returned[k].value # Returned[l].value
  /\ Len(cookieMap) < Len(Returned)

\* The name=value pairs of a stored cookie string; the empty string has none.
PairsOf(str) == IF str = <<>> THEN <<>> ELSE Split(str, "; ")
PairName(pair) == SubSeq(pair, 1, IndexOf(pair, "="))
PairValue(pair) == SubSeq(pair, IndexOf(pair, "=") + 2, Len(pair))

\* The cookie string in the record on disk, as getSavedCookies returns it.
Persisted == JsonParse(file.text).cookies
FromJar(pair, domains) ==
  \E k \in 1..Len(jar) :
    /\ <<jar[k].name>> = PairName(pair)
    /\ jar[k].value = PairValue(pair)
    /\ jar[k].domain \in domains

\* C2 as stated: every pair of the persisted cookie string is a cookie of
\* the target domain notebooklm.google.com itself.
C2_OnlyTargetDomain ==
  pc \in {"closing", "done"} =>
    \A i \in 1..Len(PairsOf(Persisted)) :
      FromJar(PairsOf(Persisted)[i], {TargetHost})

\* C2 as amended: every pair of the persisted cookie string is a cookie the
\* browser sends to the target host, set on that host or on a parent domain
\* of it; a cookie of any other domain (accounts.google.com) is never in it,
\* also when it shares its name with one that is.
C2_DomainScoped ==
  pc \in {"closing", "done"} =>
    \A i \in 1..Len(PairsOf(Persisted)) :
      FromJar(PairsOf(Persisted)[i],
              {d \in CookieDomains : DomainMatches(d, TargetHost)})

\* C2's case: an identity-provider cookie and a parent-domain cookie share
\* a name, and only the latter's value is persisted.
C2_Witness ==
  /\ pc = "done"
  /\ \E k, l \in 1..Len(jar) :
       /\ jar[k].domain = IdpHost
       /\ jar[l].domain = GoogleDomain
       /\ jar[k].name = jar[l].name
       /\ jar[k].value # jar[l].value
       /\ k > l
       /\ Persisted = <<jar[l].name, "=">> \o jar[l].value

Resolved(f) == {i \in Signals : f[i] = "resolved"}

\* C3: the login wait succeeds as soon as one signal fires, whatever the
\* others' state; it fails, with the authentication-timeout error, only
\* when no signal has fired; and it never fails while a page signal is
\* still waiting (one signal giving up alone does not fail the wait).
C3_FirstSignalWins ==
  [][/\ (race = "pending" /\ Resolved(sig') # {})
          => (race' = "resolved" /\ pc' = "postwait" /\ error' = "none")
     /\ (race = "pending" /\ race' = "rejected")
          => /\ Resolved(sig') = {}
             /\ \A i \in PageSignals : sig'[i] = "rejected"
             /\ error' = AuthenticationFailed
             /\ pc' = "failed"]_vars

\* C3's case: the wait has succeeded on the cookie poll alone, the three
\* page signals not having fired.
C3_Witness ==
  /\ pc = "postwait"
  /\ race = "resolved"
  /\ sig[4] = "resolved"
  /\ \A i \in PageSignals : sig[i] = "pending"

\* C4: the session-cookie signal fires only where a session cookie is
\* present and the page's origin is the target origin.
C4_CookieSignalOnTargetOrigin ==
  [][(sig[4] = "pending" /\ sig'[4] = "resolved")
       => (HasSessionCookie(jar) /\ Origin(url) = TargetOrigin)]_vars

\* C5: a call of getSavedCookies made when no write is under way returns
\* exactly the cookie string of the last completed save; with no record it
\* throws the not-authenticated error and leaves the record absent.
C5_ReadBack ==
  [][(readPc = "idle" /\ readPc' = "returned")
       => /\ ~file.exists
               => (readResult'.status = NotAuthenticated /\ file' = NoFile)
          /\ (file.exists /\ pc # "writing" /\ fixPc # "writing")
               => readResult' = [status |-> "ok", cookies |-> lastSaved]]_vars

\* C5's case: a cookie string holding a quote, saved and read back.
C5_Witness ==
  /\ readPc = "returned"
  /\ readResult.status = "ok"
  /\ readResult.cookies = lastSaved
  /\ \E i \in 1..Len(lastSaved) : lastSaved[i] = Quote
  /\ pc = "done"

RECURSIVE FirstOfEachName(_, _)
FirstOfEachName(pairs, names) ==
  IF pairs = <<>> THEN <<>>
  ELSE IF PairName(Head(pairs)) \in names
       THEN FirstOfEachName(Tail(pairs), names)
       ELSE <<Head(pairs)>>
              \o FirstOfEachName(Tail(pairs), names \cup {PairName(Head(pairs))})

\* C6: fix-cookies writes back one pair per distinct name, in order of
\* first appearance, with the first value of the name; Before is the number
\* of input pairs and After the number of distinct names.
C6_FixKeepsFirst ==
  LET pairs == PairsOf(fixData)
      names == {PairName(pairs[i]) : i \in 1..Len(pairs)}
  IN  /\ fixPc \in {"computed", "writing", "done"}
           => /\ fixNew.cookies = Join(FirstOfEachName(pairs, {}), "; ")
              /\ fixReport.before = Len(pairs)
              /\ fixReport.after = Cardinality(names)
      /\ fixPc = "done" => Persisted = Join(FirstOfEachName(pairs, {}), "; ")

\* C7: the record on disk is always complete, valid JSON, and no reader
\* ever fails to parse it.
C7_RecordNeverPartial ==
  /\ file.exists => JsonParse(file.text).ok
  /\ readResult.status # "SyntaxError"

\* C8: the writers are serialized, so no update is lost: the record that
\* fix-cookies replaces with its deduplicated copy is the record it read,
\* never one that a run of runAuthentication saved in between.
C8_WritersSerialized ==
  [][(fixPc = "writing" /\ fixPc' = "done") => lastSaved = fixData]_vars

\* C9: with required cookie names missing after a successful login wait,
\* runAuthentication warns and goes on: it fails only by the wait failing
\* or the browser closing, and it persists the cookies it has.
C9_MissingIsWarning ==
  /\ pc = "failed" => (race = "rejected" \/ browser = "closed")
  /\ Extracted => warned = (missing # {})
  /\ (pc \in {"closing", "done"} /\ missing # {})
       => /\ error = "none"
          /\ authData.cookies = CookieString(cookieMap)
          /\ file = FileWith(JsonStringify(authData))

\* C9's case: a run that finished with SID itself among the missing names.
C9_Witness ==
  /\ pc = "done"
  /\ "SID" \in missing
  /\ warned
  /\ Persisted = authData.cookies

\* C10: when the fetch resolves to the identity provider's origin, test-auth
\* reports the cookies invalid and does not scan the body for the markers.
C10_FailClosedOnRedirect ==
  (taPc = "done" /\ ~AxiosThrows(taResponse)
     /\ Origin(taResponse.finalUrl) = IdpOrigin)
    => (taVerdict = "expired" /\ taScan = NotScanned)

\* C10's case: the identity provider's page held the token marker.
C10_Witness ==
  /\ taPc = "done"
  /\ taVerdict = "expired"
  /\ Origin(taResponse.finalUrl) = IdpOrigin
  /\ taResponse.hops > 0
  /\ HtmlIncludes(taResponse.body, "SNlM0e")

\* The names of the pairs of a stored cookie string.
StoredPairNames(str) ==
  {PairName(PairsOf(str)[i]) : i \in 1..Len(PairsOf(str))}
SessionNamesStored == {<<n>> : n \in SessionCookieNames}

\* C14: runAuthentication never persists a record whose cookies hold neither
\* SID nor __Secure-3PSID.
C14_NoRecordWithoutSession ==
  pc \in {"closing", "done"} =>
    StoredPairNames(Persisted) \cap SessionNamesStored # {}

\* The login wait has ended, by a signal or by failure.
WaitEnded == race \in {"resolved", "rejected"}

\* C15: once the login wait has ended isDone is set and the check loop
\* schedules nothing more: no timer is armed and no check is started, so
\* only a check already in flight can still complete.
C15_LoopTornDown ==
  [][WaitEnded =>
       /\ isDone
       /\ (loop' = "timer" => loop = "timer")
       /\ (loop' = "inflight" => loop = "inflight")]_vars

\* C15's case: the wait ended by its timeout while a check was in flight,
\* and that check has then completed, finding the session cookie.
C15_Witness ==
  /\ race = "rejected"
  /\ sig[4] = "resolved"
  /\ loop = "stopped"

\* The positions of runAuthentication before it opens the record's file.
BeforeWrite == {"idle", "waiting", "postwait", "verifying", "extracting"}

\* C17: runAuthentication fails only before it touches the record, every
\* step up to and into the failure leaves the record as it was, and a failed
\* call launches nothing again.
C17_FailureLeavesRecord ==
  [][/\ (pc' \in BeforeWrite \cup {"failed"} =>
          /\ pc \in BeforeWrite \cup {"failed"}
          /\ file' = file
          /\ lastSaved' = lastSaved)
     /\ (pc = "failed" =>
          /\ pc' = "failed"
          /\ (browser' = "open" => browser = "open"))]_vars

\* C17's case: the login wait timed out with a record on disk.
C17_Witness ==
  /\ pc = "failed"
  /\ error = AuthenticationFailed
  /\ browser = "open"
  /\ file = FileWith(JsonStringify(LegacyRecord))

\* C18: no run of runAuthentication ends with its browser still open.
C18_BrowserClosedAtEnd == pc \in {"done", "failed"} => browser = "closed"

\* An init attempt of the client has completed.
InitCompleted == clPc \in {"returned", "threw", "reported"}

\* C11: after every completed init attempt csrfToken and sessionId are
\* both set or both absent.
C11_TokensBothOrNeither ==
  InitCompleted => ((csrfToken = Null) <=> (sessionId = Null))

\* C11 as amended: after every completed init attempt sessionId is set only
\* if csrfToken is set; an init that failed has set neither and left
\* initialized false, and an init that succeeded has set csrfToken.
C11_SessionOnlyWithCsrf ==
  InitCompleted =>
    /\ (sessionId # Null => csrfToken # Null)
    /\ (clError # "none" =>
          csrfToken = Null /\ sessionId = Null /\ ~initialized)
    /\ (clError = "none" => csrfToken # Null /\ initialized)

\* C11's case: init succeeded on a page that has no session identifier, and
\* testInit read the two fields.
C11_Witness ==
  /\ clPc = "reported"
  /\ tiReport.read
  /\ tiReport.csrf
  /\ ~tiReport.session
  /\ tiReport.result

\* testResearch has left its wait loop.
WaitOver == trPc = "ended"

\* C12: the wait loop of testResearch terminates; a poll is issued only
\* while no poll has returned 'completed' and fewer than PollDeadline ms
\* have passed since the start, and no earlier than PollDelay ms after the
\* response before it, so that at most PollDeadline / PollDelay polls are
\* issued; a loop that ends without completion reports 'still running'.
C12_WaitLoopTerminates ==
  /\ [](polls >= 1 => (polls - 1) * PollDelay < PollDeadline)
  /\ [](WaitOver /\ ~completed /\ lastResult # "threw" /\ polls >= 1 =>
          trReport = "still running")
  /\ [][polls' # polls =>
          /\ polls' = polls + 1
          /\ ~completed
          /\ lastResult # "completed"
          /\ now - startTime < PollDeadline
          /\ (polls >= 1 => now - lastReturnAt >= PollDelay)]_vars
  /\ <>WaitOver

\* C12's case: the loop polled up to the deadline and ended on it.
C12_Witness ==
  /\ WaitOver
  /\ trReport = "still running"
  /\ polls >= 2
  /\ now - startTime >= PollDeadline

\* C13: once a poll response has reported 'completed' or 'failed', no
\* further poll is issued.
C13_StopsOnTerminal ==
  [][(lastResult \in {"completed", "failed"}) => polls' = polls]_vars

\* C16: no two installs are run for the same detected latest version, and
\* none is run when the process's version equals the latest.
C16_UpdateOnce ==
  /\ \A i, j \in 1..Len(installLog) :
       i # j => installLog[i][2] # installLog[j][2]
  /\ \A i \in 1..Len(installLog) : installLog[i][1] # installLog[i][2]

====
